---- MODULE Spec2Model ----
(***************************************************************************)
(* Record linkage / coordinate imputation of dc-parking-tickets:           *)
(* transform.py (_simple_fill, _fuzzy_fill, _update_main_data_frame) and   *)
(* utils.py (clean_string, link_lat_long, validate_fuzzy_match,            *)
(* get_best_fuzzy_match); and the merger of the earlier pipeline,          *)
(* src/clean.py with link_lat_long of its own utils.py.                    *)
(*                                                                         *)
(* Python strings are TLA+ strings; a character is a string of length 1.   *)
(* A missing value (None / NaN) of a LOCATION, LATITUDE or LONGITUDE cell  *)
(* is the value NaN below; coordinates are written as decimal strings      *)
(* because the code never computes with them, it only copies them.         *)
(***************************************************************************)
EXTENDS Integers, Sequences, FiniteSets, TLC

VARIABLES
    df,            \* the main dataframe: a sequence of rows
    prev,          \* df as it was when the last phase was called
    input,         \* df as it was read
    hist,          \* the phases called so far, "simple" / "fuzzy"
    err,           \* "none", or the exception a phase raised
    location_map,  \* the location_map the last phase built
    pc,            \* position of the pure-function harnesses
    s, once, twice,           \* clean_string: argument, one and two applications
    unknown, match, valid,    \* validate_fuzzy_match: arguments and result
    swapped                   \* its result on the arguments exchanged

vars == <<df, prev, input, hist, err, location_map, pc, s, once, twice,
          unknown, match, valid, swapped>>

(***************************************************************************)
(* Bounds and input alphabets                                              *)
(***************************************************************************)
MaxRecords == 2
MaxSteps == 2
MaxStrLen == 4
MaxFuzzyRecords == 3

NaN == "NaN"

(***************************************************************************)
(* Characters and Python string primitives                                 *)
(***************************************************************************)
Char(str, i) == SubSeq(str, i, i)

Rest(str) == SubSeq(str, 2, Len(str))

Front(str) == SubSeq(str, 1, Len(str) - 1)

UPPER == "ABCDEFGHIJKLMNOPQRSTUVWXYZ"

LOWER == "abcdefghijklmnopqrstuvwxyz"

DIGITS == "0123456789"

CharsOf(str) == {Char(str, i) : i \in 1..Len(str)}

UpperSet == CharsOf(UPPER)

LowerSet == CharsOf(LOWER)

DigitSet == CharsOf(DIGITS)

\* str.isspace() characters of the ASCII range
Whitespace == {" ", "\t", "\n", "\r", "\f"}

\* str.lower() on one ASCII character
lower_char(c) ==
    IF c \in UpperSet
    THEN Char(LOWER, CHOOSE i \in 1..Len(UPPER) : Char(UPPER, i) = c)
    ELSE c

RECURSIVE lower(_)
lower(str) ==
    IF Len(str) = 0 THEN "" ELSE lower_char(Char(str, 1)) \o lower(Rest(str))

RECURSIVE lstrip(_)
lstrip(str) ==
    IF Len(str) > 0 /\ Char(str, 1) \in Whitespace THEN lstrip(Rest(str)) ELSE str

RECURSIVE rstrip(_)
rstrip(str) ==
    IF Len(str) > 0 /\ Char(str, Len(str)) \in Whitespace
    THEN rstrip(Front(str)) ELSE str

strip(str) == rstrip(lstrip(str))

\* re.sub(r'[^A-Za-z0-9 ]+', '', str): every character outside the class is deleted
RECURSIVE re_sub_non_alnum(_)
re_sub_non_alnum(str) ==
    IF Len(str) = 0 THEN ""
    ELSE (IF Char(str, 1) \in (UpperSet \cup LowerSet \cup DigitSet \cup {" "})
          THEN Char(str, 1) ELSE "")
         \o re_sub_non_alnum(Rest(str))

isinstance_str(x) == x # NaN

clean_string(x) ==
    IF isinstance_str(x) THEN re_sub_non_alnum(lower(strip(x))) ELSE x

(***************************************************************************)
(* Regular expressions of utils.py, as searches over the whitespace-       *)
(* delimited tokens of a string.  Each pattern starts with (?:^|\s) or a   *)
(* literal space and ends with (?:\s|$), so every group it captures is a   *)
(* whole token; re.search returns the leftmost match.  A match is the      *)
(* tuple of the groups the code reads, None is the empty tuple.            *)
(***************************************************************************)
None == <<>>

AllIn(str, set) == \A i \in 1..Len(str) : Char(str, i) \in set

RECURSIVE TokenEnd(_, _)
TokenEnd(str, i) ==
    IF i < Len(str) /\ Char(str, i + 1) \notin Whitespace
    THEN TokenEnd(str, i + 1) ELSE i

\* the maximal runs of non-whitespace characters at or after position i
RECURSIVE TokensFrom(_, _)
TokensFrom(str, i) ==
    IF i > Len(str) THEN <<>>
    ELSE IF Char(str, i) \in Whitespace THEN TokensFrom(str, i + 1)
    ELSE LET e == TokenEnd(str, i)
         IN  <<[b |-> i, e |-> e]>> \o TokensFrom(str, e + 1)

Tokens(str) == TokensFrom(str, 1)

Text(str, t) == SubSeq(str, t.b, t.e)

\* numbered_street = ([0-9]+)(st|nd|rd|th)
numbered_street(tok) ==
    /\ Len(tok) >= 3
    /\ SubSeq(tok, Len(tok) - 1, Len(tok)) \in {"st", "nd", "rd", "th"}
    /\ AllIn(SubSeq(tok, 1, Len(tok) - 2), DigitSet)

\* letter_street = [a-z]+
letter_street(tok) == Len(tok) >= 1 /\ AllIn(tok, LowerSet)

street_types ==
    {"st", "street", "ave", "avenue", "pl", "place", "dr", "drive", "ct", "court",
     "blvd", "boulevard", "ln", "lane", "rd", "road", "pkwy", "parkway", "cir",
     "circle", "ter", "terrace", "plz", "plaza", "way", "alley", "row", "roadway",
     "walk", "walkway", "square", "sq"}

\* the least index at which a sequence of booleans is TRUE, 0 when none is
First(hits) ==
    IF \E k \in 1..Len(hits) : hits[k]
    THEN CHOOSE k \in 1..Len(hits) : hits[k] /\ \A j \in 1..(k - 1) : ~hits[j]
    ELSE 0

\* BLOCK = (?:^|\s)([0-9]+)(\s(block|blk))?(?:\s|$); the tuple is <<group(1)>>
BLOCK(str) ==
    LET toks == Tokens(str)
        P(k) == AllIn(Text(str, toks[k]), DigitSet)
        k == First([i \in 1..Len(toks) |-> P(i)])
    IN  IF k = 0 THEN None ELSE <<Text(str, toks[k])>>

\* STREET = (?:^|\s)(numbered_street|letter_street) (street_types)(?:\s|$);
\* the tuple is <<group(1), group(4)>>: the street name, then the street type
STREET(str) ==
    LET toks == Tokens(str)
        P(k) == /\ k < Len(toks)
                /\ \/ numbered_street(Text(str, toks[k]))
                   \/ letter_street(Text(str, toks[k]))
                /\ Char(str, toks[k].e + 1) = " "
                /\ toks[k + 1].b = toks[k].e + 2
                /\ Text(str, toks[k + 1]) \in street_types
        k == First([i \in 1..Len(toks) |-> P(i)])
    IN  IF k = 0 THEN None ELSE <<Text(str, toks[k]), Text(str, toks[k + 1])>>

\* QUADRANT = " (nw|ne|sw|se)(?:\s|$)"; the tuple is <<group(1)>>
QUADRANT(str) ==
    LET toks == Tokens(str)
        P(k) == /\ toks[k].b > 1
                /\ Char(str, toks[k].b - 1) = " "
                /\ Text(str, toks[k]) \in {"nw", "ne", "sw", "se"}
        k == First([i \in 1..Len(toks) |-> P(i)])
    IN  IF k = 0 THEN None ELSE <<Text(str, toks[k])>>

\* str[0:2]
Prefix2(str) == SubSeq(str, 1, IF Len(str) < 2 THEN Len(str) ELSE 2)

(***************************************************************************)
(* validate_fuzzy_match                                                    *)
(***************************************************************************)
\* the block rule of lines 194-207; TRUE is "okay", FALSE is "return False"
block_ok(unknown_block, known_block) ==
    IF unknown_block # known_block
    THEN LET d1 == Prefix2(unknown_block)
             d2 == Prefix2(known_block)
         IN  IF d1 # d2
             THEN d1 = d2 \o "0" \/ d2 = d1 \o "0"
             ELSE TRUE
    ELSE TRUE

\* A plausible slip: the block must match exactly
validate_exact_block(u, m) ==
    LET unknown_tup == <<BLOCK(u), STREET(u), QUADRANT(u)>>
        known_tup == <<BLOCK(m), STREET(m), QUADRANT(m)>>
    IN  IF (\E i \in 1..3 : unknown_tup[i] = None) \/ (\E i \in 1..3 : known_tup[i] = None)
        THEN FALSE
        ELSE /\ unknown_tup[1][1] = known_tup[1][1]
             /\ unknown_tup[2][1] = known_tup[2][1]
             /\ unknown_tup[3][1] = known_tup[3][1]

\* A plausible slip: only one direction of the trailing-zero rule
validate_one_sided_zero(u, m) ==
    LET unknown_tup == <<BLOCK(u), STREET(u), QUADRANT(u)>>
        known_tup == <<BLOCK(m), STREET(m), QUADRANT(m)>>
    IN  IF (\E i \in 1..3 : unknown_tup[i] = None) \/ (\E i \in 1..3 : known_tup[i] = None)
        THEN FALSE
        ELSE /\ \/ unknown_tup[1][1] = known_tup[1][1]
                \/ Prefix2(unknown_tup[1][1]) = Prefix2(known_tup[1][1])
                \/ Prefix2(unknown_tup[1][1]) = Prefix2(known_tup[1][1]) \o "0"
             /\ unknown_tup[2][1] = known_tup[2][1]
             /\ unknown_tup[3][1] = known_tup[3][1]

validate_fuzzy_match(u, m) ==
    LET unknown_tup == <<BLOCK(u), STREET(u), QUADRANT(u)>>
        known_tup == <<BLOCK(m), STREET(m), QUADRANT(m)>>
    IN  IF (\E i \in 1..3 : unknown_tup[i] = None) \/ (\E i \in 1..3 : known_tup[i] = None)
        THEN FALSE
        ELSE IF ~block_ok(unknown_tup[1][1], known_tup[1][1]) THEN FALSE
        ELSE IF unknown_tup[2][1] # known_tup[2][1] THEN FALSE
        ELSE IF unknown_tup[3][1] # known_tup[3][1] THEN FALSE
        ELSE TRUE

(***************************************************************************)
(* get_best_fuzzy_match: rapidfuzz process.extractOne with fuzz.ratio      *)
(***************************************************************************)
Max2(a, b) == IF a >= b THEN a ELSE b

\* one row of the longest-common-subsequence table: row[j + 1] is the LCS
\* length of the first i characters of a and the first j characters of b
RECURSIVE LcsRow(_, _, _, _)
LcsRow(c, b, above, row) ==
    LET j == Len(row)
    IN  IF j > Len(b) THEN row
        ELSE LcsRow(c, b, above,
                    Append(row, IF c = Char(b, j)
                                THEN above[j] + 1
                                ELSE Max2(above[j + 1], row[j])))

RECURSIVE LcsRows(_, _, _, _)
LcsRows(a, b, i, above) ==
    IF i > Len(a) THEN above
    ELSE LcsRows(a, b, i + 1, LcsRow(Char(a, i), b, above, <<0>>))

lcs_length(a, b) == LcsRows(a, b, 1, [j \in 1..(Len(b) + 1) |-> 0])[Len(b) + 1]

\* fuzz.ratio(a, b) = 100 * 2 * LCS / (len(a) + len(b)), 100 for two empty
\* strings; kept as the fraction <<numerator, denominator>> of the score / 100
ratio(a, b) ==
    IF Len(a) + Len(b) = 0 THEN <<1, 1>>
    ELSE <<2 * lcs_length(a, b), Len(a) + Len(b)>>

(***************************************************************************)
(* The values the cells of a frame are drawn from, and the results of the  *)
(* vectorized calls (clean_string, fuzz.ratio, validate_fuzzy_match) on    *)
(* them, computed once                                                     *)
(***************************************************************************)
LOCATIONS ==
    {NaN, " ", "   ", "1900 FAKE ST NW", "1900 fake st. nw", "1800 fake st nw"}

LATITUDES == {NaN, "38.9", "38.8"}

LONGITUDES == {NaN, "-77.0", "-77.1"}

\* an address whose nearest other address ("1800 ...") is on another block
\* while a farther one ("19 ...") is on its own
FUZZY_LOCATIONS == {"1900 A ST NW", "1800 a st nw", "19 a st nw"}

FUZZY_PAIRS == {<<NaN, NaN>>, <<NaN, "-77.0">>, <<"38.9", "-77.0">>, <<"38.8", "-77.1">>}

formatted_table == [loc \in LOCATIONS \cup FUZZY_LOCATIONS |-> clean_string(loc)]

formatted(loc) == formatted_table[loc]

FORMATTED == {formatted(loc) : loc \in (LOCATIONS \cup FUZZY_LOCATIONS) \ {NaN}}

ratio_table == [q \in FORMATTED, c \in FORMATTED |-> ratio(q, c)]

fuzz_ratio(a, b) ==
    IF a \in FORMATTED /\ b \in FORMATTED THEN ratio_table[a, b] ELSE ratio(a, b)

valid_table == [u \in FORMATTED, m \in FORMATTED |-> validate_fuzzy_match(u, m)]

is_valid(u, m) == valid_table[u, m]

ScoreLess(x, y) == x[1] * y[2] < y[1] * x[2]

\* process.extractOne(query, choices, scorer=fuzz.ratio, processor=None) over the
\* choices in their iteration order: the first choice of the highest score, None
\* when there is no choice
extractOne(query, choices) ==
    LET best(k) == \A j \in 1..Len(choices) :
                       ~ScoreLess(fuzz_ratio(query, choices[k]), fuzz_ratio(query, choices[j]))
        k == First([i \in 1..Len(choices) |-> best(i)])
    IN  IF k = 0 THEN None ELSE <<choices[k], fuzz_ratio(query, choices[k])>>

\* tup[0]; subscripting None is the TypeError the caller sees
get_best_fuzzy_match(possible_matches, query) == extractOne(query, possible_matches)[1]

\* the orders in which a Python set may be iterated
IterationOrders(set) ==
    {f \in [1..Cardinality(set) -> set] : \A i, j \in 1..Cardinality(set) : f[i] = f[j] => i = j}

(***************************************************************************)
(* Dataframes: a frame is a sequence of rows, a row a record of its cells  *)
(***************************************************************************)
isna(x) == x = NaN

null_vals == {NaN, "", " ", "  "}

clear_trivial_values(set) == set \ null_vals

has_null(r) == isna(r.LATITUDE) \/ isna(r.LONGITUDE)

has_both(r) == ~isna(r.LATITUDE) /\ ~isna(r.LONGITUDE)

\* frame[['LOCATION', 'LATITUDE', 'LONGITUDE']]
columns3(frame) ==
    [i \in 1..Len(frame) |-> [LOCATION |-> frame[i].LOCATION,
                              LATITUDE |-> frame[i].LATITUDE,
                              LONGITUDE |-> frame[i].LONGITUDE]]

\* the rows whose key (keys[i] is the key of frame[i]) no earlier row has
keep_first(frame, keys) ==
    LET Keep(i) == \A j \in 1..(i - 1) : keys[j] # keys[i]
        kept == SelectSeq([i \in 1..Len(frame) |-> i], Keep)
    IN  [n \in 1..Len(kept) |-> frame[kept[n]]]

\* frame.drop_duplicates()
drop_duplicates(frame) == keep_first(frame, frame)

\* frame.drop_duplicates(subset=['LOCATION'])
drop_duplicates_LOCATION(frame) ==
    keep_first(frame, [i \in 1..Len(frame) |-> frame[i].LOCATION])

dropna_LOCATION(frame) == LET Keep(r) == ~isna(r.LOCATION) IN SelectSeq(frame, Keep)

\* {key: (row['LATITUDE'], row['LONGITUDE']) for row in frame}, keys[i] being
\* the key of frame[i]: a later row of the same key replaces an earlier one
dict_of(frame, keys) ==
    [k \in {keys[i] : i \in 1..Len(frame)} |->
        LET last == CHOOSE i \in 1..Len(frame) :
                        /\ keys[i] = k
                        /\ \A j \in (i + 1)..Len(frame) : keys[j] # k
        IN  <<frame[last].LATITUDE, frame[last].LONGITUDE>>]

(***************************************************************************)
(* link_lat_long and _update_main_data_frame                               *)
(***************************************************************************)
\* A plausible slip: no pd.isna test, the map value always wins
link_lat_long_overwrite(map, index, loc, lat_long) ==
    IF loc \in null_vals THEN lat_long
    ELSE IF loc \in DOMAIN map THEN map[loc][index + 1]
    ELSE lat_long

link_lat_long(map, index, loc, lat_long) ==
    IF loc \in null_vals THEN lat_long
    ELSE IF loc \in DOMAIN map /\ isna(lat_long) THEN map[loc][index + 1]
    ELSE lat_long

\* .replace('', np.nan)
replace_empty(x) == IF x = "" THEN NaN ELSE x

\* A plausible slip: the two axes read each other's index of the tuple
update_swapped_index(map, frame) ==
    [i \in 1..Len(frame) |->
        [frame[i] EXCEPT
            !.LATITUDE = replace_empty(link_lat_long(map, 1, frame[i].LOCATION, frame[i].LATITUDE)),
            !.LONGITUDE = replace_empty(link_lat_long(map, 0, frame[i].LOCATION, frame[i].LONGITUDE))]]

\* A plausible slip: the normalized address is written back over LOCATION
update_formatted_location(map, frame) ==
    [i \in 1..Len(frame) |->
        [frame[i] EXCEPT
            !.LOCATION = clean_string(frame[i].LOCATION),
            !.LATITUDE = replace_empty(link_lat_long(map, 0, frame[i].LOCATION, frame[i].LATITUDE)),
            !.LONGITUDE = replace_empty(link_lat_long(map, 1, frame[i].LOCATION, frame[i].LONGITUDE))]]

_update_main_data_frame(map, frame) ==
    [i \in 1..Len(frame) |->
        [frame[i] EXCEPT
            !.LATITUDE = replace_empty(link_lat_long(map, 0, frame[i].LOCATION, frame[i].LATITUDE)),
            !.LONGITUDE = replace_empty(link_lat_long(map, 1, frame[i].LOCATION, frame[i].LONGITUDE))]]

\* np.vectorize without otypes raises ValueError on a column of size 0
vectorize_raises(column) == Len(column) = 0

(***************************************************************************)
(* _simple_fill, lines 69-87: the location_map it builds                   *)
(***************************************************************************)
\* A plausible slip: link keeps the rows that have both coordinates as well
simple_location_map_all_rows(frame) ==
    LET nulls == SelectSeq(frame, has_null)
        null_location_set == {nulls[i].LOCATION : i \in 1..Len(nulls)}
        InSet(r) == r.LOCATION \in null_location_set
        link == drop_duplicates(columns3(SelectSeq(frame, InSet)))
    IN  dict_of(link, [i \in 1..Len(link) |-> link[i].LOCATION])

simple_location_map(frame) ==
    LET nulls == SelectSeq(frame, has_null)
        null_location_set == {nulls[i].LOCATION : i \in 1..Len(nulls)}
        \* line 75 calls clear_trivial_values and drops what it returns
        cleared == clear_trivial_values(null_location_set)
        InSet(r) == r.LOCATION \in null_location_set
        link == drop_duplicates(columns3(SelectSeq(SelectSeq(frame, InSet), has_null)))
    IN  dict_of(link, [i \in 1..Len(link) |-> link[i].LOCATION])

(***************************************************************************)
(* _fuzzy_fill, lines 110-161                                              *)
(***************************************************************************)
fuzzy_nulls(frame) ==
    dropna_LOCATION(drop_duplicates_LOCATION(columns3(SelectSeq(frame, has_null))))

fuzzy_knowns(frame) ==
    dropna_LOCATION(drop_duplicates_LOCATION(columns3(SelectSeq(frame, has_both))))

known_set(frame) ==
    {formatted(fuzzy_knowns(frame)[i].LOCATION) : i \in 1..Len(fuzzy_knowns(frame))}

\* the exception lines 133-135 raise, "none" when they raise none
fuzzy_raises(frame) ==
    IF vectorize_raises(fuzzy_nulls(frame)) THEN "ValueError"
    ELSE IF known_set(frame) = {} THEN "TypeError"
    ELSE "none"

\* every row of nulls with its formatted_location, best_fuzzy_match and valid?
fuzzy_matches(frame, order) ==
    LET nulls == fuzzy_nulls(frame)
    IN  [i \in 1..Len(nulls) |->
            LET formatted_location == formatted(nulls[i].LOCATION)
                best_fuzzy_match == get_best_fuzzy_match(order, formatted_location)
            IN  [LOCATION |-> nulls[i].LOCATION,
                 formatted_location |-> formatted_location,
                 best_fuzzy_match |-> best_fuzzy_match,
                 valid |-> is_valid(formatted_location, best_fuzzy_match)]]

\* A plausible slip: the matches are not filtered by valid?
fuzzy_location_map_unvalidated(frame, order) ==
    LET matches == fuzzy_matches(frame, order)
        knowns == fuzzy_knowns(frame)
        known_dict == dict_of(knowns, [i \in 1..Len(knowns) |-> formatted(knowns[i].LOCATION)])
    IN  [loc \in {matches[i].LOCATION : i \in 1..Len(matches)} |->
            LET m == CHOOSE i \in 1..Len(matches) : matches[i].LOCATION = loc
            IN  known_dict[matches[m].best_fuzzy_match]]

fuzzy_location_map(frame, order) ==
    LET IsValid(r) == r.valid
        matches == SelectSeq(fuzzy_matches(frame, order), IsValid)
        knowns == fuzzy_knowns(frame)
        known_dict == dict_of(knowns, [i \in 1..Len(knowns) |-> formatted(knowns[i].LOCATION)])
    IN  [loc \in {matches[i].LOCATION : i \in 1..Len(matches)} |->
            LET m == CHOOSE i \in 1..Len(matches) : matches[i].LOCATION = loc
            IN  known_dict[matches[m].best_fuzzy_match]]

(***************************************************************************)
(* The pipeline of transform(): the frame as read, then the two phases     *)
(***************************************************************************)
\* _read_raw_data: the monthly files concatenated, at least one row, '' already
\* replaced by NaN; OBJECTID stands for the payload columns
Cells == [LOCATION : LOCATIONS, LATITUDE : LATITUDES, LONGITUDE : LONGITUDES]

Row(c, i) ==
    [LOCATION |-> c.LOCATION, LATITUDE |-> c.LATITUDE, LONGITUDE |-> c.LONGITUDE,
     OBJECTID |-> i]

Frame(f) == [i \in 1..Len(f) |-> Row(f[i], i)]

Idle ==
    /\ pc = "idle" /\ s = "" /\ once = "" /\ twice = ""
    /\ unknown = "" /\ match = "" /\ valid = FALSE /\ swapped = FALSE

Init ==
    /\ \E n \in 1..MaxRecords : \E f \in [1..n -> Cells] : df = Frame(f)
    /\ prev = df
    /\ input = df
    /\ hist = <<>>
    /\ err = "none"
    /\ location_map = <<>>
    /\ Idle

_simple_fill ==
    /\ err = "none"
    /\ Len(hist) < MaxSteps
    /\ hist' = Append(hist, "simple")
    /\ prev' = df
    /\ location_map' = simple_location_map(df)
    /\ IF vectorize_raises(df)
       THEN err' = "ValueError" /\ df' = df
       ELSE err' = "none" /\ df' = _update_main_data_frame(location_map', df)
    /\ UNCHANGED <<input, pc, s, once, twice, unknown, match, valid, swapped>>

_fuzzy_fill ==
    /\ err = "none"
    /\ Len(hist) < MaxSteps
    /\ hist' = Append(hist, "fuzzy")
    /\ prev' = df
    /\ IF fuzzy_raises(df) # "none"
       THEN err' = fuzzy_raises(df) /\ df' = df /\ location_map' = <<>>
       ELSE \E order \in IterationOrders(known_set(df)) :
                /\ err' = "none"
                /\ location_map' = fuzzy_location_map(df, order)
                /\ df' = _update_main_data_frame(location_map', df)
    /\ UNCHANGED <<input, pc, s, once, twice, unknown, match, valid, swapped>>

Next == _simple_fill \/ _fuzzy_fill

Spec == Init /\ [][Next]_vars

\* the same pipeline on frames of up to MaxFuzzyRecords rows of the addresses
\* FUZZY_LOCATIONS, so that a null row meets two known rows
FuzzyCell(loc, pair) == [LOCATION |-> loc, LATITUDE |-> pair[1], LONGITUDE |-> pair[2]]

FuzzyCells == {FuzzyCell(loc, pair) : loc \in FUZZY_LOCATIONS, pair \in FUZZY_PAIRS}

InitFuzzy ==
    /\ \E n \in 1..MaxFuzzyRecords : \E f \in [1..n -> FuzzyCells] : df = Frame(f)
    /\ prev = df
    /\ input = df
    /\ hist = <<>>
    /\ err = "none"
    /\ location_map = <<>>
    /\ Idle

SpecFuzzy == InitFuzzy /\ [][Next]_vars

(***************************************************************************)
(* clean_string on its own: every string over ALPHABET of at most          *)
(* MaxStrLen characters (and the non-string NaN), normalized once, then    *)
(* the result normalized again                                             *)
(***************************************************************************)
ALPHABET == {"a", "A", "1", " ", ".", "\t"}

RECURSIVE Concat(_)
Concat(chars) == IF chars = <<>> THEN "" ELSE Head(chars) \o Concat(Tail(chars))

NoFrame ==
    /\ df = <<>> /\ prev = <<>> /\ input = <<>> /\ hist = <<>>
    /\ err = "none" /\ location_map = <<>>

InitClean ==
    /\ NoFrame
    /\ pc = "clean0"
    /\ \/ s = NaN
       \/ \E n \in 0..MaxStrLen : \E chars \in [1..n -> ALPHABET] : s = Concat(chars)
    /\ once = "" /\ twice = ""
    /\ unknown = "" /\ match = "" /\ valid = FALSE /\ swapped = FALSE

CleanOnce ==
    /\ pc = "clean0"
    /\ once' = clean_string(s)
    /\ pc' = "clean1"
    /\ UNCHANGED <<df, prev, input, hist, err, location_map, s, twice, unknown, match, valid, swapped>>

CleanTwice ==
    /\ pc = "clean1"
    /\ twice' = clean_string(once)
    /\ pc' = "clean2"
    /\ UNCHANGED <<df, prev, input, hist, err, location_map, s, once, unknown, match, valid, swapped>>

NextClean == CleanOnce \/ CleanTwice

SpecClean == InitClean /\ [][NextClean]_vars

(***************************************************************************)
(* validate_fuzzy_match on its own: every pair of addresses put together   *)
(* from a block, a street name, a street type and a quadrant, each of      *)
(* which may be missing                                                    *)
(***************************************************************************)
BLOCKS == {"", "1", "10", "19", "190", "1900", "1800", "19 block"}

NAMES == {"", "fake", "1st"}

TYPES == {"st", "ave"}

QUADS == {"", "nw", "se"}

RECURSIVE JoinWords(_)
JoinWords(words) ==
    IF words = <<>> THEN ""
    ELSE IF Head(words) = "" THEN JoinWords(Tail(words))
    ELSE IF JoinWords(Tail(words)) = "" THEN Head(words)
    ELSE Head(words) \o " " \o JoinWords(Tail(words))

ADDRESSES == {JoinWords(<<b, n, t, q>>) : b \in BLOCKS, n \in NAMES, t \in TYPES, q \in QUADS}

InitValidate ==
    /\ NoFrame
    /\ pc = "validate0"
    /\ s = "" /\ once = "" /\ twice = ""
    /\ unknown \in ADDRESSES
    /\ match \in ADDRESSES
    /\ valid = FALSE
    /\ swapped = FALSE

Validate ==
    /\ pc = "validate0"
    /\ valid' = validate_fuzzy_match(unknown, match)
    /\ pc' = "validate1"
    /\ UNCHANGED <<df, prev, input, hist, err, location_map, s, once, twice, unknown, match,
                   swapped>>

ValidateSwapped ==
    /\ pc = "validate1"
    /\ swapped' = validate_fuzzy_match(match, unknown)
    /\ pc' = "validate2"
    /\ UNCHANGED <<df, prev, input, hist, err, location_map, s, once, twice, unknown, match,
                   valid>>

NextValidate == Validate \/ ValidateSwapped

SpecValidate == InitValidate /\ [][NextValidate]_vars

(***************************************************************************)
(* src/src: the earlier pipeline, clean.py with its own utils.py.  Its     *)
(* simple_fill builds the location_map as _simple_fill of transform.py     *)
(* does (lines 49-67 are lines 69-87 of transform.py, null_vals and        *)
(* clear_trivial_values are the same); its link_lat_long is another one.   *)
(* fuzzy_fill of clean.py, which ranks with fuzz.WRatio, is not modelled.  *)
(***************************************************************************)
\* src/src/utils.link_lat_long: the value returned and its Python type; the
\* coordinates of the frame as read and of the map are floats, '' and loc are str
clean_py_link_lat_long(map, index, loc, lat_long) ==
    IF loc \in null_vals THEN [val |-> "", type |-> "str"]
    ELSE IF loc \in DOMAIN map /\ isna(lat_long)
         THEN [val |-> map[loc][index + 1], type |-> "float"]
    ELSE [val |-> loc, type |-> "str"]

\* str(x) of a float: the coordinates are kept as their decimal strings, nan
\* becomes the string 'nan', which is not a missing value
str_of(x) == IF x = NaN THEN "nan" ELSE x

\* np.vectorize without otypes: the type of the first output is the dtype of
\* the whole result; a str where floats are expected raises ValueError (no
\* LOCATION of the frames reads as a float), a float among strs becomes its str
clean_py_vectorize(outs) ==
    IF outs[1].type = "float"
    THEN IF \E i \in 1..Len(outs) : outs[i].type = "str"
         THEN [raises |-> TRUE, column |-> <<>>]
         ELSE [raises |-> FALSE, column |-> [i \in 1..Len(outs) |-> outs[i].val]]
    ELSE [raises |-> FALSE, column |-> [i \in 1..Len(outs) |-> str_of(outs[i].val)]]

clean_py_column(map, index, frame, column) ==
    clean_py_vectorize(
        [i \in 1..Len(frame) |->
            clean_py_link_lat_long(map, index, frame[i].LOCATION, column[i])])

\* clean.py _update_main_data_frame: LATITUDE is assigned (line 140) before
\* LONGITUDE is computed (line 141), '' is replaced by NaN last (line 142)
clean_py_update_main_data_frame(map, frame) ==
    LET lat == clean_py_column(map, 0, frame, [i \in 1..Len(frame) |-> frame[i].LATITUDE])
        with_lat == [i \in 1..Len(frame) |-> [frame[i] EXCEPT !.LATITUDE = lat.column[i]]]
        lon == clean_py_column(map, 1, frame, [i \in 1..Len(frame) |-> frame[i].LONGITUDE])
    IN  IF lat.raises THEN [err |-> "ValueError", df |-> frame]
        ELSE IF lon.raises THEN [err |-> "ValueError", df |-> with_lat]
        ELSE [err |-> "none",
              df |-> [i \in 1..Len(frame) |->
                        [frame[i] EXCEPT
                            !.LATITUDE = replace_empty(lat.column[i]),
                            !.LONGITUDE = replace_empty(lon.column[i])]]]

\* clean.py simple_fill, called once on the frame as read (line 153)
simple_fill ==
    /\ hist = <<>>
    /\ hist' = <<"clean.simple">>
    /\ prev' = df
    /\ location_map' = simple_location_map(df)
    /\ err' = clean_py_update_main_data_frame(location_map', df).err
    /\ df' = clean_py_update_main_data_frame(location_map', df).df
    /\ UNCHANGED <<input, pc, s, once, twice, unknown, match, valid, swapped>>

NextCleanPy == simple_fill

SpecCleanPy == Init /\ [][NextCleanPy]_vars

(***************************************************************************)
(* Claims                                                                  *)
(***************************************************************************)
Last(seq) == seq[Len(seq)]

Called == hist # <<>>

\* the spec's notion of a trivial location: absent, empty or only whitespace
IsTrivial(loc) == isna(loc) \/ AllIn(loc, Whitespace)

Feasible(str) == BLOCK(str) # None /\ STREET(str) # None /\ QUADRANT(str) # None

\* C1: whatever phase was called last, a latitude (longitude) that was not
\* null when the phase was called is the same after it.
C1_NonOverwrite ==
    Called =>
        /\ Len(df) = Len(prev)
        /\ \A i \in 1..Len(prev) :
            /\ ~isna(prev[i].LATITUDE) => df[i].LATITUDE = prev[i].LATITUDE
            /\ ~isna(prev[i].LONGITUDE) => df[i].LONGITUDE = prev[i].LONGITUDE

\* a phase ran with a map that offers another latitude for a row whose
\* latitude was present
C1_Witness ==
    /\ Called
    /\ err = "none"
    /\ \E i \in 1..Len(prev) :
        /\ ~isna(prev[i].LATITUDE)
        /\ prev[i].LOCATION \notin null_vals
        /\ prev[i].LOCATION \in DOMAIN location_map
        /\ ~isna(location_map[prev[i].LOCATION][1])
        /\ location_map[prev[i].LOCATION][1] # prev[i].LATITUDE

\* C2 (as claimed): after _simple_fill, a row R with both coordinates null and
\* a non-trivial location has the coordinates of a row K of the same location
\* that had both, when K's pair is the only pair known for that location.
C2_ExactFillsFromKnown ==
    (Called /\ Last(hist) = "simple" /\ err = "none") =>
        \A r, k \in 1..Len(prev) :
            ( /\ isna(prev[r].LATITUDE) /\ isna(prev[r].LONGITUDE)
              /\ ~IsTrivial(prev[r].LOCATION)
              /\ prev[k].LOCATION = prev[r].LOCATION
              /\ has_both(prev[k])
              /\ \A j \in 1..Len(prev) :
                    (prev[j].LOCATION = prev[r].LOCATION /\ ~isna(prev[j].LATITUDE))
                        => prev[j].LATITUDE = prev[k].LATITUDE
              /\ \A j \in 1..Len(prev) :
                    (prev[j].LOCATION = prev[r].LOCATION /\ ~isna(prev[j].LONGITUDE))
                        => prev[j].LONGITUDE = prev[k].LONGITUDE )
            => /\ df[r].LATITUDE = prev[k].LATITUDE
               /\ df[r].LONGITUDE = prev[k].LONGITUDE

\* C3 (as claimed): after _simple_fill then _fuzzy_fill (neither raising), a
\* row whose location is absent, empty or only whitespace has every coordinate
\* null that was null in the frame as read.
C3_TrivialExclusion ==
    (hist = <<"simple", "fuzzy">> /\ err = "none") =>
        \A i \in 1..Len(input) :
            IsTrivial(input[i].LOCATION) =>
                /\ isna(input[i].LATITUDE) => isna(df[i].LATITUDE)
                /\ isna(input[i].LONGITUDE) => isna(df[i].LONGITUDE)

\* C4: _simple_fill called on the frame _simple_fill returned returns that
\* frame, row by row and axis by axis.
C4_SimpleFillIdempotent ==
    (Len(hist) >= 2 /\ Last(hist) = "simple" /\ hist[Len(hist) - 1] = "simple") =>
        (err = "none" /\ df = prev)

\* _simple_fill ran twice in a row, and its first run filled something
C4_Witness ==
    /\ hist = <<"simple", "simple">>
    /\ err = "none"
    /\ prev # input

\* C5 (as claimed): clean_string(clean_string(s)) = clean_string(s).
C5_NormalizerIdempotent == pc = "clean2" => twice = once

\* C6 (as claimed): every pair in the location_map a phase built is the pair
\* of a row that had both coordinates when the phase was called.
C6_MapFromKnowns ==
    (Called /\ err = "none") =>
        \A key \in DOMAIN location_map :
            \E i \in 1..Len(prev) :
                /\ has_both(prev[i])
                /\ location_map[key] = <<prev[i].LATITUDE, prev[i].LONGITUDE>>

\* C7 (as claimed): validate_fuzzy_match returns True only if the street of
\* both addresses, name and street type together, is the same.
C7_StreetAgreement ==
    (pc = "validate1" /\ valid) => STREET(unknown) = STREET(match)

\* the block rule as the claim words it
BlockAgreement(b1, b2) ==
    \/ b1 = b2
    \/ Prefix2(b1) = Prefix2(b2)
    \/ Prefix2(b1) = Prefix2(b2) \o "0"
    \/ Prefix2(b2) = Prefix2(b1) \o "0"

\* C8: for two feasible addresses of the same street and quadrant,
\* validate_fuzzy_match accepts exactly when the blocks are identical, or
\* agree on their first two characters, or the first two characters of one
\* are those of the other followed by "0"; "1900" against "190" is accepted,
\* "1900" against "1800" is rejected.
C8_BlockAgreement ==
    pc = "validate1" =>
        /\ ( /\ Feasible(unknown) /\ Feasible(match)
             /\ STREET(unknown) = STREET(match)
             /\ QUADRANT(unknown) = QUADRANT(match) )
           => (valid <=> BlockAgreement(BLOCK(unknown)[1], BLOCK(match)[1]))
        /\ (unknown = "1900 fake st nw" /\ match = "190 fake st nw") => valid
        /\ (unknown = "1900 fake st nw" /\ match = "1800 fake st nw") => ~valid

\* two feasible addresses of one street and quadrant whose blocks differ in
\* their first two characters were accepted by the trailing-zero rule
C8_Witness ==
    /\ pc = "validate1"
    /\ Feasible(unknown) /\ Feasible(match)
    /\ STREET(unknown) = STREET(match)
    /\ QUADRANT(unknown) = QUADRANT(match)
    /\ Prefix2(BLOCK(unknown)[1]) # Prefix2(BLOCK(match)[1])
    /\ valid

\* C9 (as claimed): _fuzzy_fill never raises.
C9_FuzzyFillNeverRaises ==
    (Called /\ Last(hist) = "fuzzy") => err = "none"

\* C10: a phase leaves the number and order of the rows, the columns of every
\* row, its LOCATION and its payload as they were; a coordinate differs only
\* where it was null.
C10_Frame ==
    Called =>
        /\ Len(df) = Len(prev)
        /\ \A i \in 1..Len(prev) :
            /\ DOMAIN df[i] = DOMAIN prev[i]
            /\ df[i].LOCATION = prev[i].LOCATION
            /\ df[i].OBJECTID = prev[i].OBJECTID
            /\ df[i].LATITUDE # prev[i].LATITUDE => isna(prev[i].LATITUDE)
            /\ df[i].LONGITUDE # prev[i].LONGITUDE => isna(prev[i].LONGITUDE)

\* _fuzzy_fill normalized a location that is not its own normal form, and
\* filled a coordinate of that row
C10_Witness ==
    /\ Called
    /\ Last(hist) = "fuzzy"
    /\ err = "none"
    /\ \E i \in 1..Len(prev) :
        /\ df[i] # prev[i]
        /\ formatted(prev[i].LOCATION) # prev[i].LOCATION

\* C11 (as claimed): after a phase, a row that ends with both coordinates and
\* had a coordinate filled by the phase holds the (LATITUDE, LONGITUDE) pair
\* of one single row of the frame the phase was called on; stated for the rows
\* of a location that is not trivial.
C11_NoMismatchedPairs ==
    (Called /\ err = "none") =>
        \A i \in 1..Len(prev) :
            (has_both(df[i]) /\ df[i] # prev[i] /\ ~IsTrivial(prev[i].LOCATION)) =>
                \E j \in 1..Len(prev) :
                    /\ prev[j].LATITUDE = df[i].LATITUDE
                    /\ prev[j].LONGITUDE = df[i].LONGITUDE

\* C12 (as claimed): the location_map a phase built has no key that is absent,
\* empty or only whitespace.
C12_NoTrivialKeys ==
    (Called /\ err = "none") =>
        \A key \in DOMAIN location_map : ~IsTrivial(key)

\* C13 (as claimed): after _update_main_data_frame of clean.py, the axis of a
\* row is map[location][axis] when the location is not trivial, is a key of
\* the map and the axis was null; in every other case it is what it was.
C13_CleanPyMergerFrame ==
    (hist = <<"clean.simple">> /\ err = "none") =>
        \A i \in 1..Len(prev) :
            LET loc == prev[i].LOCATION
                mapped == ~IsTrivial(loc) /\ loc \in DOMAIN location_map
            IN  /\ df[i].LATITUDE =
                     IF mapped /\ isna(prev[i].LATITUDE)
                     THEN location_map[loc][1] ELSE prev[i].LATITUDE
                /\ df[i].LONGITUDE =
                     IF mapped /\ isna(prev[i].LONGITUDE)
                     THEN location_map[loc][2] ELSE prev[i].LONGITUDE

\* the known normalized addresses of the highest fuzz.ratio against the
\* normalized loc: extractOne returns one of them
BestMatches(frame, loc) ==
    {b \in known_set(frame) :
        \A c \in known_set(frame) :
            ~ScoreLess(fuzz_ratio(formatted(loc), b), fuzz_ratio(formatted(loc), c))}

\* those of them that validate_fuzzy_match accepts
PassingBest(frame, loc) ==
    {b \in BestMatches(frame, loc) : is_valid(formatted(loc), b)}

\* C14: when _fuzzy_fill is called on a frame with a known address, and a row
\* with a null axis has location L, no error is raised, and the row is changed
\* only if a best-scoring known address for clean_string(L) passes
\* validate_fuzzy_match and the map gives L the pair of a row of that address;
\* when no best-scoring address passes, every axis of every row of location L
\* that was null is still null, whatever other known address would pass.
C14_FuzzyGatedByBestMatch ==
    (Called /\ Last(hist) = "fuzzy") =>
        \A i \in 1..Len(prev) :
            (has_null(prev[i]) /\ ~isna(prev[i].LOCATION) /\ known_set(prev) # {}) =>
                LET L == prev[i].LOCATION
                IN  /\ err = "none"
                    /\ df[i] # prev[i] =>
                        /\ L \in DOMAIN location_map
                        /\ \E k \in 1..Len(prev) :
                            /\ has_both(prev[k])
                            /\ ~isna(prev[k].LOCATION)
                            /\ formatted(prev[k].LOCATION) \in PassingBest(prev, L)
                            /\ location_map[L] = <<prev[k].LATITUDE, prev[k].LONGITUDE>>
                    /\ PassingBest(prev, L) = {} =>
                        /\ isna(prev[i].LATITUDE) => isna(df[i].LATITUDE)
                        /\ isna(prev[i].LONGITUDE) => isna(df[i].LONGITUDE)

\* _fuzzy_fill left a null row as it was because its best-scoring known
\* address failed validation, although another known address would have passed
C14_Witness ==
    /\ Called
    /\ Last(hist) = "fuzzy"
    /\ err = "none"
    /\ \E i \in 1..Len(prev) :
        /\ has_null(prev[i])
        /\ ~isna(prev[i].LOCATION)
        /\ PassingBest(prev, prev[i].LOCATION) = {}
        /\ \E c \in known_set(prev) : is_valid(formatted(prev[i].LOCATION), c)
        /\ df[i] = prev[i]

\* C15: validate_fuzzy_match(a, b) = validate_fuzzy_match(b, a).
C15_ValidatorSymmetric == pc = "validate2" => swapped = valid

\* two different addresses, one on block "1" and one on a block that begins
\* "10", were accepted in both orders
C15_Witness ==
    /\ pc = "validate2"
    /\ valid /\ swapped
    /\ unknown # match
    /\ BLOCK(unknown) = <<"1">>
    /\ Prefix2(BLOCK(match)[1]) = "10"

\* every row has both coordinates or neither
BothOrNeither(frame) ==
    \A i \in 1..Len(frame) :
        has_both(frame[i]) \/ (isna(frame[i].LATITUDE) /\ isna(frame[i].LONGITUDE))

====
